---- MODULE Spec2Model ----
(***************************************************************************)
(* Model of the data layer of the Bucharest dashboard:                     *)
(*   - CalitateAerService / CopernicusService / DataService                *)
(*     (src/services/apiService.ts, held in src/unnamed/part_000), and     *)
(*   - the BucharestDashboard component's state (same file, lines 207-253).*)
(* Concentrations are fixed-point numbers in tenths of a unit; -1 stands   *)
(* for a JavaScript undefined field.  Sub-indices are exact rationals      *)
(* <<numerator, denominator>>.                                             *)
(***************************************************************************)
EXTENDS Integers, Sequences, FiniteSets, TLC

VARIABLES
    aqiIn, aqiOut,                  \* one call of calculateAQI: argument, result
    bandIn, bandOut,                \* one call of each banding function: argument, results
    avgIn, avgOut,                  \* one call of each mean computation: argument, results
    pc,                             \* getAllDashboardData: idle, running, returned, thrown
    aqStations, slots, aq,          \* getCurrentAirQuality: its station list, per-station promises, result
    cw, hf, st,                     \* getCurrentWeather, getHourlyForecast, getStations promises
    hStations, hist,                \* getHistoricalData: its station list, result
    snapshot,                       \* the object getAllDashboardData returned
    log,                            \* ghost: the outcome of every upstream request of the cycle
    airQualityData, weatherData,    \* BucharestDashboard: useState values
    historicalData, isLoading,
    phase,                          \* BucharestDashboard: rendered, mounted, unmounted
    loadData,                       \* loadData(): idle, waiting (on its timer), done
    interval,                       \* whether the setInterval timer is registered
    cycle,                          \* ghost: number of refreshes started (loadData, interval ticks)
    shown                           \* ghost: the refresh that produced each useState value

aqiVars == <<aqiIn, aqiOut, bandIn, bandOut, avgIn, avgOut>>

svcVars == <<pc, aqStations, slots, aq, cw, hf, st, hStations, hist, snapshot, log>>

uiVars == <<airQualityData, weatherData, historicalData, isLoading, phase, loadData,
            interval, cycle, shown>>

vars == <<aqiIn, aqiOut, bandIn, bandOut, avgIn, avgOut, pc, aqStations, slots, aq, cw, hf, st, hStations, hist, snapshot, log,
          airQualityData, weatherData, historicalData, isLoading, phase, loadData,
          interval, cycle, shown>>

\* ------------------------------------------------------------------ bounds

\* Inputs of calculateAQI are the multiples of ConcStep tenths up to
\* MaxConcSteps * ConcStep tenths.
ConcStep == 125

MaxConcSteps == 40

\* ------------------------------------------------------- program constants

\* A JavaScript undefined (absent field of an upstream response).
Undefined == -1

\* The cap of each sub-index: Math.min(..., 300).
SubIndexCap == 300

\* ------------------------------------------------------------- calculateAQI

\* JavaScript truthiness of a numeric field: undefined and 0 are falsy.
Truthy(x) == x # Undefined /\ x # 0

\* Exact rationals <<n, d>>, d > 0.
RatLeq(a, b) == a[1] * b[2] <= b[1] * a[2]

RatMin(a, b) == IF RatLeq(a, b) THEN a ELSE b

RatMax(a, b) == IF RatLeq(a, b) THEN b ELSE a

\* Math.round: the nearest integer, halves rounded up (floor(x + 0.5)).
MathRound(a) == (2 * a[1] + a[2]) \div (2 * a[2])

\* (c / 35.4) * 100 for c given in tenths: c * 100 / 354 = c * 50 / 177.
Pm25Scaled(c) == <<c * 50, 177>>

\* (c / 154) * 100 for c given in tenths: c * 100 / 1540 = c * 5 / 77.
Pm10Scaled(c) == <<c * 5, 77>>

\* (c / 100) * 100 for c given in tenths: c / 10.
No2Scaled(c) == <<c, 10>>

pm25AQI(m) == IF Truthy(m.pm25) THEN RatMin(Pm25Scaled(m.pm25), <<SubIndexCap, 1>>) ELSE <<0, 1>>

pm10AQI(m) == IF Truthy(m.pm10) THEN RatMin(Pm10Scaled(m.pm10), <<SubIndexCap, 1>>) ELSE <<0, 1>>

no2AQI(m) == IF Truthy(m.no2) THEN RatMin(No2Scaled(m.no2), <<SubIndexCap, 1>>) ELSE <<0, 1>>

\* Mutant of calculateAQI: Math.floor for Math.round.
calculateAQI_floor(m) == LET x == RatMax(pm25AQI(m), RatMax(pm10AQI(m), no2AQI(m)))
                         IN  x[1] \div x[2]

calculateAQI(m) == MathRound(RatMax(pm25AQI(m), RatMax(pm10AQI(m), no2AQI(m))))

\* ----------------------------------------------------- promises, responses

Pending == [kind |-> "pending"]

Rejected == [kind |-> "rejected"]

\* A fulfilled promise; src is a ghost tag: "live" or "fallback".
Resolved(v, s) == [kind |-> "resolved", value |-> v, src |-> s]

\* What an upstream request can end with: a rejection (network, auth,
\* timeout), a response whose body is unusable (null, not an array), or a
\* response with data.
NetworkError == [kind |-> "error"]

Malformed == [kind |-> "malformed"]

Data(d) == [kind |-> "data", data |-> d]

\* JavaScript null, as returned for a station whose request failed.
Null == [null |-> TRUE]

\* A value or a JavaScript undefined, for a field that holds an object or an
\* array: what awaiting a settled promise yields.
Defined(v) == [defined |-> TRUE, value |-> v]

Undef == [defined |-> FALSE]

\* The argument slot of calculateAQI before any call.
NoReading == [pm25 |-> Undefined, pm10 |-> Undefined, no2 |-> Undefined]

\* x || 0 on a numeric field.
OrZero(x) == IF Truthy(x) THEN x ELSE 0

RECURSIVE SelectSeqNotNull(_)
\* results.filter(result => result !== null)
SelectSeqNotNull(s) == IF s = <<>> THEN <<>>
                       ELSE IF Head(s) = Null THEN SelectSeqNotNull(Tail(s))
                       ELSE <<Head(s)>> \o SelectSeqNotNull(Tail(s))

\* ------------------------------------------------------ CalitateAerService

\* Random draws: Math.floor(Math.random() * n) is one of 0..MaxDraw.
MaxDraw == 1

RandomDraws == 0..MaxDraw

getMockStations ==
    << [id |-> 1, name |-> "Calea Plevnei", county |-> "BUCURESTI"],
       [id |-> 2, name |-> "Drumul Taberei", county |-> "BUCURESTI"],
       [id |-> 3, name |-> "Berceni", county |-> "BUCURESTI"],
       [id |-> 4, name |-> "Titan", county |-> "BUCURESTI"],
       [id |-> 5, name |-> "Ambasada", county |-> "BUCURESTI"] >>

\* s?.toLowerCase().includes('bucuresti'), on the strings the upstream sends
\* here ("" is an absent field).
IncludesBucuresti(s) == s \in {"Bucuresti", "Sector 3 Bucuresti", "Statia Bucuresti Nord"}

IsBucharestStation(station) ==
    \/ station.county = "BUCURESTI"
    \/ IncludesBucuresti(station.city)
    \/ IncludesBucuresti(station.name)

\* The station record getStations builds from an upstream one (lat and lon,
\* parsed from strings, are left out).
MapStation(station) ==
    [id |-> station.id, name |-> station.name, county |-> station.county, city |-> station.city]

RECURSIVE FilterMapStations(_)
\* stations.filter(...).map(...)
FilterMapStations(s) ==
    IF s = <<>> THEN <<>>
    ELSE IF IsBucharestStation(Head(s))
         THEN <<MapStation(Head(s))>> \o FilterMapStations(Tail(s))
         ELSE FilterMapStations(Tail(s))

\* Mutant of getStations: the catch block rethrows.
getStations_rethrow(o) ==
    IF o.kind = "data" THEN Resolved(FilterMapStations(o.data), "live") ELSE Rejected

\* getStations, given what GET /stations ended with: any rejection and any
\* exception while reading the body lands in the catch block.
getStations(o) ==
    IF o.kind = "data" THEN Resolved(FilterMapStations(o.data), "live")
    ELSE Resolved(getMockStations, "fallback")

RECURSIVE FindName(_, _)
\* stations.find(s => s.id === stationId)?.name || 'Unknown'
FindName(stations, stationId) ==
    IF stations = <<>> THEN "Unknown"
    ELSE IF Head(stations).id = stationId THEN Head(stations).name
    ELSE FindName(Tail(stations), stationId)

\* Mutant of LiveSample: the index the upstream sent is kept.
LiveSample_upstreamIndex(stations, stationId, data) ==
    [stationId |-> stationId,
     stationName |-> FindName(stations, stationId),
     measurements |-> [pm25 |-> OrZero(data.pm25), pm10 |-> OrZero(data.pm10),
                       no2 |-> OrZero(data.no2), o3 |-> OrZero(data.o3),
                       so2 |-> OrZero(data.so2), co |-> OrZero(data.co)],
     aqi |-> OrZero(data.aqi),
     src |-> "live"]

\* The object built for one station from its current measurement.
LiveSample(stations, stationId, data) ==
    [stationId |-> stationId,
     stationName |-> FindName(stations, stationId),
     measurements |-> [pm25 |-> OrZero(data.pm25), pm10 |-> OrZero(data.pm10),
                       no2 |-> OrZero(data.no2), o3 |-> OrZero(data.o3),
                       so2 |-> OrZero(data.so2), co |-> OrZero(data.co)],
     aqi |-> calculateAQI(data),
     src |-> "live"]

\* Mutant of fetchStation: a failed request rejects the station's promise.
fetchStation_reject(stations, stationId, o) ==
    IF o.kind = "data" THEN Resolved(LiveSample(stations, stationId, o.data), "live")
    ELSE Rejected

\* The async arrow function of getCurrentAirQuality, per station: its own
\* try/catch turns every failure into null.
fetchStation(stations, stationId, o) ==
    IF o.kind = "data" THEN Resolved(LiveSample(stations, stationId, o.data), "live")
    ELSE Resolved(Null, "live")

\* One mock sample; rm and ra are the random draws of the measurements and
\* of the index (values in tenths).
MockSample(station, rm, ra) ==
    [stationId |-> station.id,
     stationName |-> station.name,
     measurements |-> [pm25 |-> (rm + 10) * 10, pm10 |-> (rm + 20) * 10,
                       no2 |-> (rm + 15) * 10, o3 |-> (rm + 30) * 10,
                       so2 |-> (rm + 5) * 10, co |-> (rm + 2) * 10],
     aqi |-> ra + 25,
     src |-> "fallback"]

getMockAirQuality(rm, ra) ==
    [i \in 1..Len(getMockStations) |-> MockSample(getMockStations[i], rm, ra)]

\* The promises getCurrentAirQuality creates once its station list is known:
\* one pending request per station; none when getStations rejected.
StationPromises(stationsP) ==
    IF stationsP.kind = "resolved" THEN [i \in 1..Len(stationsP.value) |-> Pending] ELSE <<>>

\* The random draws getCurrentAirQuality takes: those of getMockAirQuality,
\* when its catch block runs.
MockDraws(stationsP, ps) ==
    IF stationsP.kind # "resolved" \/ (\E i \in 1..Len(ps) : ps[i].kind = "rejected")
    THEN RandomDraws \X RandomDraws
    ELSE {<<0, 0>>}

AllSettled(ps) == \A i \in 1..Len(ps) : ps[i].kind # "pending"

AnyRejected(ps) == \E i \in 1..Len(ps) : ps[i].kind = "rejected"

\* Mutant of getCurrentAirQuality: the first failed station ends the batch
\* with the mock samples while other requests are outstanding.
getCurrentAirQuality_failFast(stationsP, ps, rm, ra) ==
    IF stationsP.kind # "resolved" THEN Resolved(getMockAirQuality(rm, ra), "fallback")
    ELSE IF \E i \in 1..Len(ps) : ps[i].kind = "resolved" /\ ps[i].value = Null
    THEN Resolved(getMockAirQuality(rm, ra), "fallback")
    ELSE IF ~AllSettled(ps) THEN Pending
    ELSE Resolved(SelectSeqNotNull([i \in 1..Len(ps) |-> ps[i].value]), "live")

\* getCurrentAirQuality as a function of its settled parts: pending until
\* Promise.all over the station promises settles; the outer catch answers a
\* rejection of getStations or of Promise.all with the mock samples.
getCurrentAirQuality(stationsP, ps, rm, ra) ==
    IF stationsP.kind # "resolved" THEN Resolved(getMockAirQuality(rm, ra), "fallback")
    ELSE IF AnyRejected(ps) THEN Resolved(getMockAirQuality(rm, ra), "fallback")
    ELSE IF ~AllSettled(ps) THEN Pending
    ELSE Resolved(SelectSeqNotNull([i \in 1..Len(ps) |-> ps[i].value]), "live")

\* One mock historical point (the sinusoid and the jitter of the source are
\* abstracted to the mean level of each field; values in tenths).
MockHistoricalPoint(i) == [date |-> i, aqi |-> 50, pm25 |-> 200, pm10 |-> 350]

getMockHistoricalData == [i \in 1..30 |-> MockHistoricalPoint(i)]

HistoricalPoint(item) ==
    [date |-> item.date, aqi |-> calculateAQI(item),
     pm25 |-> OrZero(item.pm25), pm10 |-> OrZero(item.pm10)]

\* getHistoricalAirQuality, given what the historical request ended with.
getHistoricalAirQuality(o) ==
    IF o.kind = "data" THEN Resolved([i \in 1..Len(o.data) |-> HistoricalPoint(o.data[i])], "live")
    ELSE Resolved(getMockHistoricalData, "fallback")

\* -------------------------------------------------------- CopernicusService

\* getMockWeatherData (the diurnal curve and the jitter of the source are
\* abstracted to the base level of each field).
getMockWeatherData ==
    [timestamp |-> "now", temperature |-> 18, humidity |-> 45, windSpeed |-> 5,
     pressure |-> 1010, uvIndex |-> 0]

\* Mutant of getCurrentWeather: the catch block returns nothing.
getCurrentWeather_noReturn(o, r) ==
    IF o.kind = "data"
    THEN Resolved([timestamp |-> "now", temperature |-> o.data.temperature,
                   humidity |-> o.data.humidity, windSpeed |-> o.data.windSpeed,
                   pressure |-> o.data.pressure,
                   uvIndex |-> IF Truthy(o.data.uvIndex) THEN o.data.uvIndex ELSE r], "live")
    ELSE Resolved(Undef, "fallback")

\* getCurrentWeather, given what GET /current-weather ended with; r is the
\* random draw taken when the response has no uvIndex.
getCurrentWeather(o, r) ==
    IF o.kind = "data"
    THEN Resolved([timestamp |-> "now", temperature |-> o.data.temperature,
                   humidity |-> o.data.humidity, windSpeed |-> o.data.windSpeed,
                   pressure |-> o.data.pressure,
                   uvIndex |-> IF Truthy(o.data.uvIndex) THEN o.data.uvIndex ELSE r], "live")
    ELSE Resolved(getMockWeatherData, "fallback")

MockHour(i) ==
    [timestamp |-> i, temperature |-> 18, humidity |-> 45, windSpeed |-> 5,
     pressure |-> 1010, uvIndex |-> 0]

getMockHourlyData == [i \in 1..24 |-> MockHour(i)]

HourlySample(item) ==
    [timestamp |-> item.time, temperature |-> item.temperature, humidity |-> item.humidity,
     windSpeed |-> item.windSpeed, pressure |-> item.pressure,
     uvIndex |-> OrZero(item.uvIndex)]

\* getHourlyForecast, given what GET /hourly-forecast ended with.
getHourlyForecast(o) ==
    IF o.kind = "data" THEN Resolved([i \in 1..Len(o.data) |-> HourlySample(o.data[i])], "live")
    ELSE Resolved(getMockHourlyData, "fallback")

\* --------------------------------------------------------------- DataService

\* Mutant of HistoricalStation: the last station of the list is queried.
HistoricalStation_last(stations) == stations[Len(stations)].id

\* The station getHistoricalData asks the history of: stations[0].id.
HistoricalStation(stations) == stations[1].id

\* getHistoricalData once its station list is known: it awaits
\* getHistoricalAirQuality for the first station, or answers with the mock
\* series (empty list, or the catch block).
getHistoricalData(stationsP) ==
    IF stationsP.kind # "resolved" THEN Resolved(getMockHistoricalData, "fallback")
    ELSE IF Len(stationsP.value) > 0 THEN Pending
    ELSE Resolved(getMockHistoricalData, "fallback")

\* getHistoricalData once getHistoricalAirQuality settled.
getHistoricalDataResult(p) ==
    IF p.kind = "rejected" THEN Resolved(getMockHistoricalData, "fallback") ELSE p

NoSnapshot == [exists |-> FALSE]

RECURSIVE ReduceAqi(_)
\* airQualityData.reduce((acc, station) => acc + station.aqi, 0)
ReduceAqi(data) == IF data = <<>> THEN 0 ELSE Head(data).aqi + ReduceAqi(Tail(data))

\* Mutant of calculateAverageAQI: the divisor is one too many.
calculateAverageAQI_offByOne(data) ==
    IF Len(data) = 0 THEN <<0, 1>> ELSE <<ReduceAqi(data), Len(data) + 1>>

\* DataService.calculateAverageAQI, an exact rational.
calculateAverageAQI(data) == IF Len(data) = 0 THEN <<0, 1>> ELSE <<ReduceAqi(data), Len(data)>>

\* DataService.getAQILevel; aqi is a rational.
getAQILevel(aqi) ==
    IF RatLeq(aqi, <<50, 1>>) THEN "Buna"
    ELSE IF RatLeq(aqi, <<100, 1>>) THEN "Moderata"
    ELSE IF RatLeq(aqi, <<150, 1>>) THEN "Nesanatoasa pentru grupuri sensibile"
    ELSE IF RatLeq(aqi, <<200, 1>>) THEN "Nesanatoasa"
    ELSE "Foarte nesanatoasa"

\* Mutant of getAQIColor: the band limits are exclusive.
getAQIColor_exclusive(aqi) ==
    IF ~RatLeq(<<50, 1>>, aqi) THEN "#4ade80"
    ELSE IF ~RatLeq(<<100, 1>>, aqi) THEN "#facc15"
    ELSE IF ~RatLeq(<<150, 1>>, aqi) THEN "#fb923c"
    ELSE IF ~RatLeq(<<200, 1>>, aqi) THEN "#ef4444"
    ELSE "#991b1b"

\* DataService.getAQIColor.
getAQIColor(aqi) ==
    IF RatLeq(aqi, <<50, 1>>) THEN "#4ade80"
    ELSE IF RatLeq(aqi, <<100, 1>>) THEN "#facc15"
    ELSE IF RatLeq(aqi, <<150, 1>>) THEN "#fb923c"
    ELSE IF RatLeq(aqi, <<200, 1>>) THEN "#ef4444"
    ELSE "#991b1b"

\* A snapshot field holding an object: the object, or undefined.
ObjectField(v) == IF v = Undef THEN Undef ELSE Defined(v)

AnyOfKind(ps, k) == \E i \in 1..Len(ps) : ps[i].kind = k

\* Mutant of getAllDashboardData: one failed quantity makes every quantity
\* fall back.
getAllDashboardData_allOrNothing(aqP, cwP, hfP, stP, histP) ==
    IF AnyOfKind(<<aqP, cwP, hfP, stP, histP>>, "rejected")
    THEN [pc |-> "thrown", snapshot |-> NoSnapshot]
    ELSE IF AnyOfKind(<<aqP, cwP, hfP, stP, histP>>, "pending")
    THEN [pc |-> "running", snapshot |-> NoSnapshot]
    ELSE IF \E i \in 1..5 : <<aqP, cwP, hfP, stP, histP>>[i].src = "fallback"
    THEN [pc |-> "returned",
          snapshot |-> [exists |-> TRUE,
                        airQuality |-> Defined(getMockAirQuality(0, 0)),
                        weather |-> [current |-> ObjectField(getMockWeatherData),
                                     hourly |-> Defined(getMockHourlyData)],
                        stations |-> Defined(getMockStations),
                        historical |-> Defined(getMockHistoricalData),
                        lastUpdated |-> "now"]]
    ELSE [pc |-> "returned",
          snapshot |-> [exists |-> TRUE,
                        airQuality |-> Defined(aqP.value),
                        weather |-> [current |-> ObjectField(cwP.value),
                                     hourly |-> Defined(hfP.value)],
                        stations |-> Defined(stP.value),
                        historical |-> Defined(histP.value),
                        lastUpdated |-> "now"]]

\* getAllDashboardData as a function of its five promises: Promise.all
\* rejects with the first rejection, which the catch block rethrows; it
\* resolves when all five have, and the snapshot is built.
getAllDashboardData(aqP, cwP, hfP, stP, histP) ==
    IF AnyOfKind(<<aqP, cwP, hfP, stP, histP>>, "rejected")
    THEN [pc |-> "thrown", snapshot |-> NoSnapshot]
    ELSE IF AnyOfKind(<<aqP, cwP, hfP, stP, histP>>, "pending")
    THEN [pc |-> "running", snapshot |-> NoSnapshot]
    ELSE [pc |-> "returned",
          snapshot |-> [exists |-> TRUE,
                        airQuality |-> Defined(aqP.value),
                        weather |-> [current |-> ObjectField(cwP.value),
                                     hourly |-> Defined(hfP.value)],
                        stations |-> Defined(stP.value),
                        historical |-> Defined(histP.value),
                        lastUpdated |-> "now"]]

\* -------------------------------------------------------- BucharestDashboard

\* The bound on the number of refreshes (loadData and interval ticks).
MaxCycles == 3

\* Math.floor(Math.random() * 150) for the index of a generated station:
\* the draws that give the indices 80, 100 and 120.
AqiDraws == {55, 75, 95}

StationNames == <<"Calea Plevnei", "Drumul Taberei", "Berceni", "Titan", "Ambasada">>

\* One generated station; d is the draw of its index (the draws of the
\* concentrations are abstracted to 0).
GeneratedStation(name, d) ==
    [station |-> name, pm25 |-> 10, pm10 |-> 20, no2 |-> 15, o3 |-> 30, so2 |-> 5,
     aqi |-> d + 25]

\* generateAirQualityData, given the five draws of the indices.
generateAirQualityData(ds) ==
    [i \in 1..Len(StationNames) |-> GeneratedStation(StationNames[i], ds[i])]

\* generateWeatherData (curve and jitter abstracted to the base levels).
generateWeatherData ==
    [i \in 1..24 |-> [hour |-> i - 1, temperature |-> 18, humidity |-> 45,
                      windSpeed |-> 5, pressure |-> 1010]]

\* generateHistoricalData (curve and jitter abstracted to the base levels).
generateHistoricalData ==
    [i \in 1..30 |-> [date |-> i, aqi |-> 50, temperature |-> 15, pm25 |-> 20]]

\* getAQIColor of AQIGauge.
AQIGauge_getAQIColor(aqi) ==
    IF RatLeq(aqi, <<50, 1>>) THEN "#4ade80"
    ELSE IF RatLeq(aqi, <<100, 1>>) THEN "#facc15"
    ELSE IF RatLeq(aqi, <<150, 1>>) THEN "#fb923c"
    ELSE IF RatLeq(aqi, <<200, 1>>) THEN "#ef4444"
    ELSE "#991b1b"

\* getAQILevel of AQIGauge.
AQIGauge_getAQILevel(aqi) ==
    IF RatLeq(aqi, <<50, 1>>) THEN "Buna"
    ELSE IF RatLeq(aqi, <<100, 1>>) THEN "Moderata"
    ELSE IF RatLeq(aqi, <<150, 1>>) THEN "Nesanatoasa pentru grupuri sensibile"
    ELSE IF RatLeq(aqi, <<200, 1>>) THEN "Nesanatoasa"
    ELSE "Foarte nesanatoasa"

RECURSIVE SumAqi(_)
\* airQualityData.reduce((sum, station) => sum + station.aqi, 0)
SumAqi(data) == IF data = <<>> THEN 0 ELSE Head(data).aqi + SumAqi(Tail(data))

\* averageAQI of the dashboard, an exact rational.
averageAQI(data) == IF Len(data) > 0 THEN <<SumAqi(data), Len(data)>> ELSE <<0, 1>>

Advisory == "Calitatea aerului este nesanatoasa pentru grupuri sensibile."

\* Mutant of alerts: the threshold test is >= 100.
alerts_atLeast(avg) == IF RatLeq(<<100, 1>>, avg) THEN <<Advisory>> ELSE <<>>

\* The alerts array built on every render from averageAQI.
alerts(avg) == IF ~RatLeq(avg, <<100, 1>>) THEN <<Advisory>> ELSE <<>>

NoneShown == [airQuality |-> 0, weather |-> 0, historical |-> 0]

UiInit ==
    /\ airQualityData = <<>>
    /\ weatherData = <<>>
    /\ historicalData = <<>>
    /\ isLoading = TRUE
    /\ phase = "rendered"
    /\ loadData = "idle"
    /\ interval = FALSE
    /\ cycle = 0
    /\ shown = NoneShown

\* The effect runs after the first render: loadData() starts and waits on
\* its 1000 ms timer, and the 300000 ms interval is registered.
Mount ==
    /\ phase = "rendered"
    /\ phase' = "mounted"
    /\ isLoading' = TRUE
    /\ loadData' = "waiting"
    /\ interval' = TRUE
    /\ cycle' = cycle + 1
    /\ UNCHANGED <<airQualityData, weatherData, historicalData, shown>>
    /\ UNCHANGED <<aqiVars, svcVars>>

\* The timer of loadData fires: the three values are generated and set.
\* React drops the updates of an unmounted component.
LoadDataSettle ==
    \E ds \in [1..Len(StationNames) -> AqiDraws] :
        /\ loadData = "waiting"
        /\ loadData' = "done"
        /\ IF phase = "mounted"
           THEN /\ airQualityData' = generateAirQualityData(ds)
                /\ weatherData' = generateWeatherData
                /\ historicalData' = generateHistoricalData
                /\ isLoading' = FALSE
                /\ shown' = [airQuality |-> 1, weather |-> 1, historical |-> 1]
           ELSE UNCHANGED <<airQualityData, weatherData, historicalData, isLoading, shown>>
        /\ UNCHANGED <<phase, interval, cycle>>
        /\ UNCHANGED <<aqiVars, svcVars>>

\* The interval fires.  Timers fire in the order of their deadlines, so the
\* 1000 ms timer of loadData, registered first, has fired before.
IntervalTick ==
    \E ds \in [1..Len(StationNames) -> AqiDraws] :
        /\ interval
        /\ loadData # "waiting"
        /\ cycle < MaxCycles
        /\ cycle' = cycle + 1
        /\ airQualityData' = generateAirQualityData(ds)
        /\ weatherData' = generateWeatherData
        /\ shown' = [shown EXCEPT !.airQuality = cycle', !.weather = cycle']
        /\ UNCHANGED <<historicalData, isLoading, phase, loadData, interval>>
        /\ UNCHANGED <<aqiVars, svcVars>>

\* The cleanup of the effect: clearInterval.
Unmount ==
    /\ phase = "mounted"
    /\ phase' = "unmounted"
    /\ interval' = FALSE
    /\ UNCHANGED <<airQualityData, weatherData, historicalData, isLoading, loadData,
                   cycle, shown>>
    /\ UNCHANGED <<aqiVars, svcVars>>

\* ----------------------------------------------------------- upstream inputs

UpstreamStations ==
    << [id |-> 9, name |-> "Cluj Centru", county |-> "CLUJ", city |-> "Cluj-Napoca"],
       [id |-> 7, name |-> "Lacul Morii", county |-> "BUCURESTI", city |-> "Bucuresti"],
       [id |-> 8, name |-> "Magurele", county |-> "ILFOV", city |-> "Sector 3 Bucuresti"] >>

StationResponses == {NetworkError, Malformed, Data(<<>>), Data(UpstreamStations)}

\* The current measurement the upstream holds for a station (tenths).
ReadingOf(stationId) ==
    [pm25 |-> 60 * stationId, pm10 |-> 250,
     no2 |-> IF stationId % 2 = 0 THEN 180 ELSE Undefined,
     o3 |-> 400, so2 |-> 0, co |-> Undefined, aqi |-> 7]

CurrentResponses(stationId) == {NetworkError, Malformed, Data(ReadingOf(stationId))}

WeatherResponses ==
    {NetworkError, Malformed,
     Data([temperature |-> 21, humidity |-> 60, windSpeed |-> 7, pressure |-> 1013,
           uvIndex |-> Undefined])}

UpstreamHour(i) ==
    [time |-> i, temperature |-> 20, humidity |-> 55, windSpeed |-> 6, pressure |-> 1012,
     uvIndex |-> Undefined]

HourlyResponses == {NetworkError, Malformed, Data([i \in 1..2 |-> UpstreamHour(i)])}

HistoricalResponses ==
    {NetworkError, Malformed,
     Data(<< [date |-> 1, pm25 |-> 300, pm10 |-> 500, no2 |-> 450],
             [date |-> 2, pm25 |-> Undefined, pm10 |-> 1200, no2 |-> 0] >>)}

\* Ghost: "ok" for a response with usable data, "fail" for anything else.
Outcome(o) == IF o.kind = "data" THEN "ok" ELSE "fail"

NoLog ==
    [stationsAQ |-> "none", readings |-> <<>>, weather |-> "none", hourly |-> "none",
     stations |-> "none", stationsHist |-> "none", historical |-> "none", histStation |-> 0,
     retried |-> FALSE]

\* Ghost: the endpoints (URL and station id, 0 where the URL has none) a
\* request of this cycle has failed on so far.
FailedEndpoints ==
    {[url |-> "/stations", id |-> 0] :
         o \in {x \in {log.stationsAQ, log.stations, log.stationsHist} : x = "fail"}}
    \cup {[url |-> "/measurements/station/current", id |-> aqStations.value[i].id] :
             i \in {j \in 1..Len(log.readings) : log.readings[j] = "fail"}}
    \cup {[url |-> "/measurements/station/historical", id |-> log.histStation] :
             o \in {x \in {log.historical} : x = "fail"}}
    \cup {[url |-> "/current-weather", id |-> 0] : o \in {x \in {log.weather} : x = "fail"}}
    \cup {[url |-> "/hourly-forecast", id |-> 0] : o \in {x \in {log.hourly} : x = "fail"}}

\* Ghost: whether issuing requests to these endpoints repeats a failed one.
Retried(issued) == log.retried \/ (issued \cap FailedEndpoints # {})

\* ------------------------------------------------- getAllDashboardData, steps

\* The continuation of getAllDashboardData after any of its promises changed.
Continue(aqP, cwP, hfP, stP, histP) ==
    LET r == getAllDashboardData(aqP, cwP, hfP, stP, histP)
    IN  /\ pc' = r.pc
        /\ snapshot' = r.snapshot

\* getAllDashboardData is called: the five calls start, each up to its first
\* upstream request.
Start ==
    /\ pc # "running"
    /\ pc' = "running"
    /\ aqStations' = Pending
    /\ slots' = <<>>
    /\ aq' = Pending
    /\ cw' = Pending
    /\ hf' = Pending
    /\ st' = Pending
    /\ hStations' = Pending
    /\ hist' = Pending
    /\ snapshot' = NoSnapshot
    /\ log' = NoLog
    /\ UNCHANGED <<aqiVars, uiVars>>

\* GET /stations of getCurrentAirQuality settles: the per-station requests
\* are issued.
StationsResponseAQ ==
    \E o \in StationResponses :
        /\ pc = "running"
        /\ aqStations = Pending
        /\ aqStations' = getStations(o)
        /\ slots' = StationPromises(aqStations')
        /\ \E d \in MockDraws(aqStations', slots') :
               aq' = getCurrentAirQuality(aqStations', slots', d[1], d[2])
        /\ log' = [log EXCEPT !.stationsAQ = Outcome(o),
                              !.readings = [i \in 1..Len(slots') |-> "none"],
                              !.retried = Retried(
                                  {[url |-> "/measurements/station/current",
                                    id |-> aqStations'.value[i].id] : i \in 1..Len(slots')})]
        /\ Continue(aq', cw, hf, st, hist)
        /\ UNCHANGED <<cw, hf, st, hStations, hist, aqiVars, uiVars>>

\* GET /measurements/station/<id>/current settles for one station.
ReadingResponse ==
    \E i \in 1..Len(slots) :
        \E o \in CurrentResponses(aqStations.value[i].id) :
            /\ pc = "running"
            /\ aq = Pending
            /\ slots[i] = Pending
            /\ slots' = [slots EXCEPT ![i] =
                             fetchStation(aqStations.value, aqStations.value[i].id, o)]
            /\ \E d \in MockDraws(aqStations, slots') :
                   aq' = getCurrentAirQuality(aqStations, slots', d[1], d[2])
            /\ log' = [log EXCEPT !.readings[i] = Outcome(o)]
            /\ Continue(aq', cw, hf, st, hist)
            /\ UNCHANGED <<aqStations, cw, hf, st, hStations, hist, aqiVars, uiVars>>

\* GET /current-weather settles.
CurrentWeatherResponse ==
    \E o \in WeatherResponses, r \in RandomDraws :
        /\ pc = "running"
        /\ cw = Pending
        /\ cw' = getCurrentWeather(o, r)
        /\ log' = [log EXCEPT !.weather = Outcome(o)]
        /\ Continue(aq, cw', hf, st, hist)
        /\ UNCHANGED <<aqStations, slots, aq, hf, st, hStations, hist, aqiVars, uiVars>>

\* GET /hourly-forecast settles.
HourlyForecastResponse ==
    \E o \in HourlyResponses :
        /\ pc = "running"
        /\ hf = Pending
        /\ hf' = getHourlyForecast(o)
        /\ log' = [log EXCEPT !.hourly = Outcome(o)]
        /\ Continue(aq, cw, hf', st, hist)
        /\ UNCHANGED <<aqStations, slots, aq, cw, st, hStations, hist, aqiVars, uiVars>>

\* GET /stations of getAllDashboardData's own getStations call settles.
StationsResponse ==
    \E o \in StationResponses :
        /\ pc = "running"
        /\ st = Pending
        /\ st' = getStations(o)
        /\ log' = [log EXCEPT !.stations = Outcome(o)]
        /\ Continue(aq, cw, hf, st', hist)
        /\ UNCHANGED <<aqStations, slots, aq, cw, hf, hStations, hist, aqiVars, uiVars>>

\* GET /stations of getHistoricalData settles: the historical request for
\* the first station is issued, or the mock series is returned.
StationsResponseHist ==
    \E o \in StationResponses :
        /\ pc = "running"
        /\ hStations = Pending
        /\ hStations' = getStations(o)
        /\ hist' = getHistoricalData(hStations')
        /\ log' = [log EXCEPT !.stationsHist = Outcome(o),
                              !.histStation = IF hist' = Pending
                                              THEN HistoricalStation(hStations'.value)
                                              ELSE 0,
                              !.retried = Retried(
                                  IF hist' = Pending
                                  THEN {[url |-> "/measurements/station/historical",
                                         id |-> HistoricalStation(hStations'.value)]}
                                  ELSE {})]
        /\ Continue(aq, cw, hf, st, hist')
        /\ UNCHANGED <<aqStations, slots, aq, cw, hf, st, aqiVars, uiVars>>

\* GET /measurements/station/<id>/historical settles.
HistoricalResponse ==
    \E o \in HistoricalResponses :
        /\ pc = "running"
        /\ hStations # Pending
        /\ hist = Pending
        /\ hist' = getHistoricalDataResult(getHistoricalAirQuality(o))
        /\ log' = [log EXCEPT !.historical = Outcome(o)]
        /\ Continue(aq, cw, hf, st, hist')
        /\ UNCHANGED <<aqStations, slots, aq, cw, hf, st, hStations, aqiVars, uiVars>>

SvcInit ==
    /\ pc = "idle"
    /\ aqStations = Pending
    /\ slots = <<>>
    /\ aq = Pending
    /\ cw = Pending
    /\ hf = Pending
    /\ st = Pending
    /\ hStations = Pending
    /\ hist = Pending
    /\ snapshot = NoSnapshot
    /\ log = NoLog

\* No call of a banding function or of a mean computation is under way.
NotCalled == [called |-> FALSE]

BandIdle == bandIn = <<0, 1>> /\ bandOut = NotCalled

MeanIdle == avgIn = <<>> /\ avgOut = NotCalled

Init == /\ SvcInit
        /\ UiInit
        /\ aqiIn = NoReading
        /\ aqiOut = Undefined
        /\ BandIdle
        /\ MeanIdle

Next == \/ Start
        \/ StationsResponseAQ
        \/ ReadingResponse
        \/ CurrentWeatherResponse
        \/ HourlyForecastResponse
        \/ StationsResponse
        \/ StationsResponseHist
        \/ HistoricalResponse

Spec == Init /\ [][Next]_vars

\* ------------------------------------------ specification of the dashboard

UiNext == \/ Mount
          \/ LoadDataSettle
          \/ IntervalTick
          \/ Unmount

SpecDashboard == Init /\ [][UiNext]_vars

\* ------------------------------------------- specification of calculateAQI

ConcValues == {k * ConcStep : k \in 0..MaxConcSteps}

Readings == [pm25 : ConcValues, pm10 : ConcValues, no2 : ConcValues]

AqiInit == /\ aqiIn \in Readings
           /\ aqiOut = Undefined
           /\ SvcInit
           /\ UiInit
           /\ BandIdle
           /\ MeanIdle

\* One call calculateAQI(aqiIn).
Calculate == /\ aqiOut = Undefined
             /\ aqiOut' = calculateAQI(aqiIn)
             /\ UNCHANGED <<aqiIn, bandIn, bandOut, avgIn, avgOut>>
             /\ UNCHANGED <<svcVars, uiVars>>

AqiNext == Calculate

SpecAQI == AqiInit /\ [][AqiNext]_vars

\* ---------------------------------- specification of the banding functions

\* Index values are the multiples of 1 / BandDen from 0 to MaxBandNum / BandDen.
BandDen == 2

MaxBandNum == 500

BandInputs == {<<n, BandDen>> : n \in 0..MaxBandNum}

BandInit == /\ bandIn \in BandInputs
            /\ bandOut = NotCalled
            /\ aqiIn = NoReading
            /\ aqiOut = Undefined
            /\ MeanIdle
            /\ SvcInit
            /\ UiInit

\* One call of each of the four banding functions with bandIn.
Band == /\ ~bandOut.called
        /\ bandOut' = [called |-> TRUE,
                       level |-> getAQILevel(bandIn),
                       color |-> getAQIColor(bandIn),
                       gaugeColor |-> AQIGauge_getAQIColor(bandIn),
                       gaugeLevel |-> AQIGauge_getAQILevel(bandIn)]
        /\ UNCHANGED <<aqiIn, aqiOut, bandIn, avgIn, avgOut>>
        /\ UNCHANGED <<svcVars, uiVars>>

BandNext == Band

SpecBand == BandInit /\ [][BandNext]_vars

\* ------------------------------------- specification of the mean index

\* Sample sets have up to MaxSamples samples.
MaxSamples == 3

\* The indices of the samples: the ends of the range and values around 100.
SampleIndices == {0, 25, 100, 101, 300}

SampleSets == UNION {[1..n -> [aqi : SampleIndices]] : n \in 0..MaxSamples}

MeanInit == /\ avgIn \in SampleSets
            /\ avgOut = NotCalled
            /\ aqiIn = NoReading
            /\ aqiOut = Undefined
            /\ BandIdle
            /\ SvcInit
            /\ UiInit

\* One evaluation of DataService.calculateAverageAQI and of the dashboard's
\* averageAQI on avgIn.
Average == /\ ~avgOut.called
           /\ avgOut' = [called |-> TRUE,
                         service |-> calculateAverageAQI(avgIn),
                         dashboard |-> averageAQI(avgIn)]
           /\ UNCHANGED <<aqiIn, aqiOut, bandIn, bandOut, avgIn>>
           /\ UNCHANGED <<svcVars, uiVars>>

MeanNext == Average

SpecMean == MeanInit /\ [][MeanNext]_vars

\* ===================================================================== claims

\* The sub-indices as the specification states them, for concentrations in
\* tenths: min(100 * c / 35.4, 300), min(100 * c / 154, 300), min(100 * c / 100, 300).
ClaimSubIndex(c, num, den) ==
    IF c = 0 THEN <<0, 1>>
    ELSE IF c * num > SubIndexCap * den THEN <<SubIndexCap, 1>> ELSE <<c * num, den>>

ClaimMaxSubIndex(m) ==
    LET a == ClaimSubIndex(m.pm25, 50, 177)
        b == ClaimSubIndex(m.pm10, 5, 77)
        c == ClaimSubIndex(m.no2, 1, 10)
        ab == IF a[1] * b[2] >= b[1] * a[2] THEN a ELSE b
    IN  IF ab[1] * c[2] >= c[1] * ab[2] THEN ab ELSE c

\* C1 as stated: for non-negative concentrations the result of calculateAQI
\* lies in 0..300 and equals the maximum of the three capped sub-indices.
C1_EqualsMaxSubIndex ==
    aqiOut # Undefined =>
        LET m == ClaimMaxSubIndex(aqiIn)
        IN  /\ aqiOut \in 0..SubIndexCap
            /\ aqiOut * m[2] = m[1]

\* C1 amended: for non-negative concentrations the result of calculateAQI lies
\* in 0..300 and is the maximum of the three capped sub-indices rounded to the
\* nearest integer, halves up (max - 1/2 < result <= max + 1/2).
C1_RoundedMaxSubIndex ==
    aqiOut # Undefined =>
        LET m == ClaimMaxSubIndex(aqiIn)
        IN  /\ aqiOut \in 0..SubIndexCap
            /\ 2 * m[2] * aqiOut <= 2 * m[1] + m[2]
            /\ 2 * m[1] + m[2] < 2 * m[2] * (aqiOut + 1)

\* C1 witness: pm25 = 25.0 alone gives 70.62..., reported as 71.
C1_Witness ==
    /\ aqiIn = [pm25 |-> 250, pm10 |-> 0, no2 |-> 0]
    /\ aqiOut = 71

\* Ghost views of the cycle's upstream requests.
ReadingsWith(outcome) == {i \in 1..Len(log.readings) : log.readings[i] = outcome}

EveryRequestFailed ==
    /\ log.stationsAQ = "fail"
    /\ log.readings # <<>>
    /\ ReadingsWith("fail") = 1..Len(log.readings)
    /\ log.weather = "fail"
    /\ log.hourly = "fail"
    /\ log.stations = "fail"
    /\ log.stationsHist = "fail"
    /\ log.historical = "fail"

\* C2: a snapshot returned by getAllDashboardData has every field populated
\* (airQuality, weather.current, weather.hourly, stations, historical,
\* lastUpdated), whatever the upstream calls ended with.
C2_SnapshotFullyPopulated ==
    pc = "returned" =>
        /\ snapshot.exists
        /\ snapshot.airQuality.defined
        /\ snapshot.weather.current.defined
        /\ snapshot.weather.hourly.defined
        /\ snapshot.stations.defined
        /\ snapshot.historical.defined
        /\ snapshot.lastUpdated = "now"

\* C2 witness: a snapshot was returned although every upstream request failed.
C2_Witness == pc = "returned" /\ EveryRequestFailed

\* C3 as stated: with five stations, one failed reading and four successful
\* ones, the snapshot has five samples, four live and one fallback, and the
\* mean index is taken over five.
C3_FiveSamplesOneFallback ==
    ( /\ pc = "returned"
      /\ Len(log.readings) = 5
      /\ Cardinality(ReadingsWith("fail")) = 1
      /\ Cardinality(ReadingsWith("ok")) = 4 )
    => LET a == snapshot.airQuality.value
       IN  /\ Len(a) = 5
           /\ Cardinality({i \in 1..Len(a) : a[i].src = "live"}) = 4
           /\ Cardinality({i \in 1..Len(a) : a[i].src = "fallback"}) = 1
           /\ calculateAverageAQI(a)[2] = 5

RECURSIVE TotalIndex(_, _)
TotalIndex(data, n) == IF n = 0 THEN 0 ELSE data[n].aqi + TotalIndex(data, n - 1)

\* C5: the alert list of the dashboard holds exactly one advisory when the
\* mean index is above 100 and is empty when the mean index is 100 or less.
C5_AdvisoryIffMeanAbove100 ==
    LET n == Len(airQualityData)
        total == TotalIndex(airQualityData, n)
        shownAlerts == alerts(averageAQI(airQualityData))
    IN  IF n > 0 /\ total > 100 * n
        THEN Len(shownAlerts) = 1 /\ shownAlerts[1] = Advisory
        ELSE shownAlerts = <<>>

\* C5 witness: five stations with mean index 120 and one advisory shown.
C5_Witness ==
    /\ Len(airQualityData) = 5
    /\ TotalIndex(airQualityData, 5) = 600
    /\ Len(alerts(averageAQI(airQualityData))) = 1

\* C6: in every air-quality sample of a returned snapshot the index is
\* calculateAQI of that sample's own pollutant readings.
C6_IndexRecomputedFromReadings ==
    pc = "returned" =>
        LET a == snapshot.airQuality.value
        IN  \A i \in 1..Len(a) : a[i].aqi = calculateAQI(a[i].measurements)

\* C6 witness: a returned snapshot with a sample whose index is not the one
\* the upstream sent.
C6_Witness ==
    /\ pc = "returned"
    /\ \E i \in 1..Len(snapshot.airQuality.value) :
           /\ snapshot.airQuality.value[i].aqi > 100
           /\ snapshot.airQuality.value[i].stationId = 7

\* C7: getAllDashboardData never throws, and none of its five promises
\* rejects, whatever the upstream requests end with; once the five have
\* settled it has returned a snapshot.
C7_NeverThrows ==
    /\ pc # "thrown"
    /\ ~AnyOfKind(<<aq, cw, hf, st, hist>>, "rejected")
    /\ (pc # "idle" /\ ~AnyOfKind(<<aq, cw, hf, st, hist>>, "pending"))
           => (pc = "returned" /\ snapshot.exists)

\* C7 witness: a cycle returned after network errors on every request to the
\* three provider endpoints it reached.
C7_Witness ==
    /\ pc = "returned"
    /\ snapshot.exists
    /\ log.stationsAQ = "fail" /\ log.stations = "fail" /\ log.stationsHist = "fail"
    /\ log.weather = "fail" /\ log.hourly = "fail" /\ log.historical = "fail"
    /\ Cardinality(ReadingsWith("fail")) = 5

\* The ids of the stations whose current reading succeeded.
StationsRead ==
    {aqStations.value[i].id : i \in ReadingsWith("ok")}

\* C8: in a returned snapshot each quantity is the fallback exactly when its
\* own upstream call failed: the weather fields follow the weather calls
\* only, the station list and the air-quality samples the air-quality
\* provider's calls only.
C8_FallbackPerQuantity ==
    pc = "returned" =>
        /\ (snapshot.weather.current.value = getMockWeatherData) <=> (log.weather = "fail")
        /\ (snapshot.weather.hourly.value = getMockHourlyData) <=> (log.hourly = "fail")
        /\ (snapshot.stations.value = getMockStations) <=> (log.stations = "fail")
        /\ {snapshot.airQuality.value[i].stationId :
                i \in 1..Len(snapshot.airQuality.value)} = StationsRead

\* C8 witness: live weather in a snapshot whose air-quality provider calls
\* all failed.
C8_Witness ==
    /\ pc = "returned"
    /\ log.weather = "ok" /\ log.hourly = "ok"
    /\ snapshot.weather.current.value.temperature = 21
    /\ log.stationsAQ = "fail" /\ log.stations = "fail" /\ log.stationsHist = "fail"
    /\ ReadingsWith("fail") = 1..5

\* C9: in the per-station fetch no station's failure fails the batch: no
\* promise of the batch rejects, and once every station's request has settled
\* the result holds one entry for each station whose request succeeded and
\* none for a station whose request failed.
C9_FailedStationsAbsent ==
    /\ aq.kind # "rejected"
    /\ ~AnyOfKind(slots, "rejected")
    /\ (aqStations.kind = "resolved" /\ AllSettled(slots)) =>
           /\ aq.kind = "resolved"
           /\ Len(aq.value) = Cardinality(ReadingsWith("ok"))
           /\ {aq.value[i].stationId : i \in 1..Len(aq.value)} = StationsRead

\* C9 witness: five stations, the requests of stations 2 and 4 failed, and
\* the batch result holds the other three.
C9_Witness ==
    /\ aq.kind = "resolved"
    /\ Len(slots) = 5
    /\ ReadingsWith("fail") = {2, 4}
    /\ Len(aq.value) = 3

\* C10 as stated, in its particular case: when the station list is not empty
\* and the current reading of every station failed, the snapshot's samples
\* are a non-empty fallback set.
C10_AllReadingsFailedGivesFallback ==
    ( /\ pc = "returned"
      /\ log.readings # <<>>
      /\ ReadingsWith("fail") = 1..Len(log.readings) )
    => LET a == snapshot.airQuality.value
       IN  /\ Len(a) > 0
           /\ \A i \in 1..Len(a) : a[i].src = "fallback"

\* C11 as stated: at every moment the air-quality, weather and historical
\* values the dashboard shows were all produced by the same refresh.
C11_ShownFromOneCycle ==
    /\ shown.airQuality = shown.weather
    /\ shown.weather = shown.historical

\* C13: once getHistoricalData knows its station list, the historical request
\* it issued is for the first station of that list when the list is not
\* empty; when the list is empty no historical request is issued and the
\* result is the fallback series.
C13_HistoryUsesFirstStation ==
    hStations.kind = "resolved" =>
        IF Len(hStations.value) > 0
        THEN log.histStation = hStations.value[1].id
        ELSE /\ log.histStation = 0
             /\ log.historical = "none"
             /\ hist = Resolved(getMockHistoricalData, "fallback")

\* C13 witness: the live list starts with station 7, whose history was
\* requested and returned.
C13_Witness ==
    /\ pc = "returned"
    /\ log.stationsHist = "ok"
    /\ Len(hStations.value) = 2
    /\ log.histStation = 7
    /\ log.historical = "ok"

\* C14 as stated: no synthetic historical points and no synthetic air-quality
\* samples are produced for an empty station list: the result is empty.
C14_NothingSyntheticForEmptyList ==
    /\ (hStations.kind = "resolved" /\ Len(hStations.value) = 0)
           => (hist.kind = "resolved" /\ Len(hist.value) = 0)
    /\ (aqStations.kind = "resolved" /\ Len(aqStations.value) = 0 /\ aq.kind = "resolved")
           => Len(aq.value) = 0

\* C16 as stated: within a cycle no request is issued to an endpoint on which
\* a request of that cycle has failed, and the result of every failed call is
\* a fallback value.
C16_NoRetryFailedGivesFallback ==
    /\ ~log.retried
    /\ \A i \in 1..Len(log.readings) :
           log.readings[i] = "fail" => (slots[i].value # Null /\ slots[i].src = "fallback")
    /\ log.stationsAQ = "fail" => aqStations.src = "fallback"
    /\ log.stations = "fail" => st.src = "fallback"
    /\ log.stationsHist = "fail" => hStations.src = "fallback"
    /\ log.weather = "fail" => cw.src = "fallback"
    /\ log.hourly = "fail" => hf.src = "fallback"
    /\ log.historical = "fail" => hist.src = "fallback"

\* C19 as stated: the hourly forecast of every returned snapshot has exactly
\* 24 samples.
C19_HourlyHas24Samples ==
    pc = "returned" => Len(snapshot.weather.hourly.value) = 24

\* C20 as stated: in every returned snapshot each air-quality sample belongs
\* to a station of the snapshot's station list, and the historical series was
\* requested for the first station of that list.
C20_StationsConsistent ==
    pc = "returned" =>
        LET s == snapshot.stations.value
            a == snapshot.airQuality.value
        IN  /\ \A i \in 1..Len(a) : \E j \in 1..Len(s) : s[j].id = a[i].stationId
            /\ log.histStation = IF Len(s) > 0 THEN s[1].id ELSE 0

\* Ghost view: every upstream request the cycle has issued has settled.
AllRequestsSettled ==
    /\ log.stationsAQ # "none"
    /\ \A i \in 1..Len(log.readings) : log.readings[i] # "none"
    /\ log.weather # "none"
    /\ log.hourly # "none"
    /\ log.stations # "none"
    /\ log.stationsHist # "none"
    /\ log.histStation # 0 => log.historical # "none"

\* C15: getAllDashboardData has returned or failed only when every upstream
\* request of the cycle has settled, and the per-station batch has a result
\* only when every station's request has settled.
C15_ReturnsAfterAllSettled ==
    /\ pc \in {"returned", "thrown"} => AllRequestsSettled
    /\ aq.kind # "pending" =>
           /\ log.stationsAQ # "none"
           /\ \A i \in 1..Len(log.readings) : log.readings[i] # "none"

\* C15 witness: a snapshot returned after failed and successful requests,
\* all of them settled.
C15_Witness ==
    /\ pc = "returned"
    /\ log.readings = <<"fail", "ok">>
    /\ log.weather = "fail"
    /\ log.hourly = "ok"
    /\ log.historical = "ok"

\* The band the specification puts an index value in, 1 (index <= 50) to
\* 5 (index > 200).
ClaimBand(x) ==
    IF x[1] <= 50 * x[2] THEN 1
    ELSE IF x[1] <= 100 * x[2] THEN 2
    ELSE IF x[1] <= 150 * x[2] THEN 3
    ELSE IF x[1] <= 200 * x[2] THEN 4
    ELSE 5

LevelBand(level) ==
    CASE level = "Buna" -> 1
      [] level = "Moderata" -> 2
      [] level = "Nesanatoasa pentru grupuri sensibile" -> 3
      [] level = "Nesanatoasa" -> 4
      [] level = "Foarte nesanatoasa" -> 5
      [] OTHER -> 0

ColorBand(color) ==
    CASE color = "#4ade80" -> 1
      [] color = "#facc15" -> 2
      [] color = "#fb923c" -> 3
      [] color = "#ef4444" -> 4
      [] color = "#991b1b" -> 5
      [] OTHER -> 0

\* C17: each of the four banding functions puts every index value in the
\* band of the five-band table (<= 50, <= 100, <= 150, <= 200, > 200), so the
\* four agree on every value.
C17_BandingAgrees ==
    bandOut.called =>
        /\ LevelBand(bandOut.level) = ClaimBand(bandIn)
        /\ ColorBand(bandOut.color) = ClaimBand(bandIn)
        /\ ColorBand(bandOut.gaugeColor) = ClaimBand(bandIn)
        /\ LevelBand(bandOut.gaugeLevel) = ClaimBand(bandIn)

\* C17 witness: the index 100.5, just above a band limit, is in the third
\* band for the four functions.
C17_Witness ==
    /\ bandIn = <<201, 2>>
    /\ bandOut.called
    /\ bandOut.level = "Nesanatoasa pentru grupuri sensibile"
    /\ bandOut.color = "#fb923c"
    /\ bandOut.gaugeColor = bandOut.color
    /\ bandOut.gaugeLevel = bandOut.level

\* C18: the mean index is 0 for an empty sample set and the sum of the
\* indices divided by the number of samples otherwise, and
\* calculateAverageAQI and averageAQI give the same value.
C18_MeanIndex ==
    avgOut.called =>
        LET n == Len(avgIn)
            total == TotalIndex(avgIn, n)
            s == avgOut.service
            d == avgOut.dashboard
        IN  /\ s[2] > 0 /\ d[2] > 0
            /\ n = 0 => (s[1] = 0 /\ d[1] = 0)
            /\ n > 0 => (s[1] * n = total * s[2] /\ d[1] * n = total * d[2])
            /\ s[1] * d[2] = d[1] * s[2]

\* C18 witness: the samples 100 and 101 have the mean 100.5 in both
\* computations.
C18_Witness ==
    /\ avgOut.called
    /\ avgIn = <<[aqi |-> 100], [aqi |-> 101]>>
    /\ avgOut.service = <<201, 2>>
    /\ avgOut.dashboard = <<201, 2>>

====
